---- MODULE Spec2Model ----
(***************************************************************************)
(* Model of scripts/pdf_to_images.py: main() and pdf_to_images().          *)
(* One process invocation runs main() from start to exit; successive       *)
(* invocations share the output file system.  Paths and messages are       *)
(* sequences of string tokens, "/" being a token of its own.               *)
(***************************************************************************)
EXTENDS Integers, Sequences, FiniteSets, TLC

VARIABLES
    pc,           \* position of the process in main() / pdf_to_images()
    sys_argv,     \* sys.argv of the running invocation (script name first)
    pdf_path,     \* main(): pdf_path  = sys.argv[1]
    output_dir,   \* main(): output_dir = sys.argv[2]
    doc,          \* the fitz document handle: state and page count
    page_num,     \* loop variable of `for page_num in range(len(doc))`
    image_path,   \* local image_path of the loop body
    image_paths,  \* local list image_paths
    exc,          \* the exception in flight (<<>> when none)
    result,       \* the dict returned by pdf_to_images (<<>> before it returns)
    stdout,       \* the lines printed by this invocation
    exit_status,  \* process exit status, -1 while the process runs
    calls,        \* the library calls made by this invocation, in order
    dirs,         \* directories that exist under the output root
    fs,           \* PNG files on disk: path -> what was written there
    prev,         \* summary of the previous invocation
    runs          \* number of invocations started

vars == <<pc, sys_argv, pdf_path, output_dir, doc, page_num, image_path,
          image_paths, exc, result, stdout, exit_status, calls, dirs, fs,
          prev, runs>>

----------------------------------------------------------------------------
(* Bounds *)

MaxPages == 2
MaxRuns == 2

----------------------------------------------------------------------------
(* Strings and paths *)

Digit(d) ==
    CASE d = 0 -> "0" [] d = 1 -> "1" [] d = 2 -> "2" [] d = 3 -> "3"
      [] d = 4 -> "4" [] d = 5 -> "5" [] d = 6 -> "6" [] d = 7 -> "7"
      [] d = 8 -> "8" [] d = 9 -> "9"

RECURSIVE Dec(_)
\* str(n) for n >= 0, as used by the f-string: decimal digits, no padding
Dec(n) == IF n < 10 THEN <<Digit(n)>> ELSE Dec(n \div 10) \o <<Digit(n % 10)>>

\* os.path.join(a, b) on POSIX
Join(a, b) ==
    IF b # <<>> /\ b[1] = "/" THEN b
    ELSE IF a = <<>> \/ a[Len(a)] = "/" THEN a \o b
    ELSE a \o <<"/">> \o b

\* faulty variant: the 0-based index in the file name
PageFileNameOffByOne(n) == <<"page-">> \o Dec(n) \o <<".png">>

\* f"page-{page_num + 1}.png"
PageFileName(n) == <<"page-">> \o Dec(n + 1) \o <<".png">>

RECURSIVE StripSlash(_)
\* the directory a path names: trailing separators do not matter
StripSlash(p) ==
    IF p # <<>> /\ p[Len(p)] = "/" THEN StripSlash(SubSeq(p, 1, Len(p) - 1))
    ELSE p

\* the directories os.makedirs(p) makes sure exist: p and its ancestors
DirsOf(p) ==
    {StripSlash(SubSeq(p, 1, i)) : i \in {j \in 1..Len(p) : p[j] # "/"}}

----------------------------------------------------------------------------
(* The environment: input files and command lines *)

ScriptName == <<"pdf_to_images.py">>

DocPath(n) == <<"doc">> \o Dec(n) \o <<".pdf">>
CorruptPath == <<"corrupt.pdf">>
MissingPath == <<"missing.pdf">>

\* input files present on disk: path -> page count, -1 for a file that the
\* library cannot open as a document
InputFiles ==
    [p \in {DocPath(n) : n \in 0..MaxPages} \cup {CorruptPath} |->
        IF p = CorruptPath THEN -1
        ELSE CHOOSE n \in 0..MaxPages : DocPath(n) = p]

PdfArgs == DOMAIN InputFiles \cup {MissingPath}
DirArgs == {<<"out">>, <<"tmp", "/", "img", "/">>, <<>>}

\* the command lines tried: 0, 1, 2 and 3 positional arguments
ArgLists ==
    {<<>>} \cup {<<p>> : p \in {DocPath(MaxPages)}}
    \cup {<<p, d>> : p \in PdfArgs, d \in DirArgs}
    \cup {<<DocPath(MaxPages), <<"out">>, <<"extra">> >>}

\* os.path.exists
PathExists(p) == p \in DOMAIN InputFiles

----------------------------------------------------------------------------
(* Values *)

NoDoc == [state |-> "none", page_count |-> 0]
NoPrev == [argv |-> <<>>, result |-> <<>>, exit_status |-> -1,
           written |-> {}, fs |-> <<>>, dirs |-> {}]

Raise(msg) == [msg |-> msg]
\* str(e)
Str(e) == <<e.msg>>

UsageResult ==
    [success |-> FALSE,
     error |-> <<"Usage: python pdf_to_images.py <pdf_path> <output_dir>">>]

NotFoundResult(p) == [success |-> FALSE, error |-> <<"PDF file not found: ">> \o p]

SuccessResult(paths) ==
    [success |-> TRUE, pages |-> Len(paths), image_paths |-> paths]

\* faulty variant: the exception's text is dropped
FailureResultGeneric(e) == [success |-> FALSE, error |-> <<"conversion failed">>]

\* {"success": False, "error": str(e)}
FailureResult(e) == [success |-> FALSE, error |-> Str(e)]

Call(op, arg, ok) == [op |-> op, arg |-> arg, ok |-> ok]

\* what pix.save writes for page n of document d
Png(d, n) == [doc |-> d, page |-> n, complete |-> TRUE]
PartialPng(d, n) == [doc |-> d, page |-> n, complete |-> FALSE]

\* fs with path p (re)written
WriteFile(f, p, c) == [q \in DOMAIN f \cup {p} |-> IF q = p THEN c ELSE f[q]]

\* the paths this invocation saved successfully
Written(cs) == {cs[i].arg : i \in {j \in DOMAIN cs : cs[j].op = "save" /\ cs[j].ok}}

----------------------------------------------------------------------------
(* Initial state: no process started, empty output tree *)

Init ==
    /\ pc = "idle"
    /\ sys_argv = <<ScriptName>>
    /\ pdf_path = <<>>
    /\ output_dir = <<>>
    /\ doc = NoDoc
    /\ page_num = 0
    /\ image_path = <<>>
    /\ image_paths = <<>>
    /\ exc = <<>>
    /\ result = <<>>
    /\ stdout = <<>>
    /\ exit_status = -1
    /\ calls = <<>>
    /\ dirs = {}
    /\ fs = <<>>
    /\ prev = NoPrev
    /\ runs = 0

----------------------------------------------------------------------------
(* Process start: a fresh interpreter, the file system is kept *)

Invoke ==
    /\ pc \in {"idle", "exited"}
    /\ runs < MaxRuns
    /\ \E args \in ArgLists : sys_argv' = <<ScriptName>> \o args
    /\ prev' = IF pc = "idle" THEN NoPrev
               ELSE [argv |-> sys_argv, result |-> result,
                     exit_status |-> exit_status,
                     written |-> Written(calls), fs |-> fs, dirs |-> dirs]
    /\ runs' = runs + 1
    /\ pc' = "main"
    /\ pdf_path' = <<>>
    /\ output_dir' = <<>>
    /\ doc' = NoDoc
    /\ page_num' = 0
    /\ image_path' = <<>>
    /\ image_paths' = <<>>
    /\ exc' = <<>>
    /\ result' = <<>>
    /\ stdout' = <<>>
    /\ exit_status' = -1
    /\ calls' = <<>>
    /\ UNCHANGED <<dirs, fs>>

----------------------------------------------------------------------------
(* main() *)

\* faulty variant: extra arguments are tolerated
ArgcOkAtLeast(argv) == Len(argv) >= 3

\* the negation of `len(sys.argv) != 3`
ArgcOk(argv) == Len(argv) = 3

\* faulty variant: the exit status follows the success flag
ExitStatusFromResult(r) == IF r.success THEN 0 ELSE 1

\* main() returns normally after printing the result
ExitStatusOfMain(r) == 0

\* print(json.dumps(obj)): one line on standard output carrying the object
PrintJson(out, obj) == Append(out, obj)

\* wrong argument count: print the usage payload, sys.exit(1)
MainUsage ==
    /\ pc = "main"
    /\ ~ArgcOk(sys_argv)
    /\ stdout' = PrintJson(stdout, UsageResult)
    /\ exit_status' = 1
    /\ pc' = "exited"
    /\ UNCHANGED <<sys_argv, pdf_path, output_dir, doc, page_num, image_path,
                   image_paths, exc, result, calls, dirs, fs, prev, runs>>

\* pdf_path = sys.argv[1]; output_dir = sys.argv[2]
MainArgs ==
    /\ pc = "main"
    /\ ArgcOk(sys_argv)
    /\ pdf_path' = sys_argv[2]
    /\ output_dir' = sys_argv[3]
    /\ pc' = "check_exists"
    /\ UNCHANGED <<sys_argv, doc, page_num, image_path, image_paths, exc,
                   result, stdout, exit_status, calls, dirs, fs, prev, runs>>

\* faulty variant: the existence check does not stop the run
MainNotFoundProceeds ==
    /\ pc = "check_exists"
    /\ ~PathExists(pdf_path)
    /\ calls' = Append(calls, Call("exists", pdf_path, TRUE))
    /\ pc' = "makedirs"
    /\ UNCHANGED <<sys_argv, pdf_path, output_dir, doc, page_num, image_path,
                   image_paths, exc, result, stdout, exit_status, dirs, fs,
                   prev, runs>>

\* `if not os.path.exists(pdf_path)`: print the not-found payload, sys.exit(1)
MainNotFound ==
    /\ pc = "check_exists"
    /\ ~PathExists(pdf_path)
    /\ calls' = Append(calls, Call("exists", pdf_path, TRUE))
    /\ stdout' = PrintJson(stdout, NotFoundResult(pdf_path))
    /\ exit_status' = 1
    /\ pc' = "exited"
    /\ UNCHANGED <<sys_argv, pdf_path, output_dir, doc, page_num, image_path,
                   image_paths, exc, result, dirs, fs, prev, runs>>

\* the file exists: main() calls pdf_to_images(pdf_path, output_dir)
MainCall ==
    /\ pc = "check_exists"
    /\ PathExists(pdf_path)
    /\ calls' = Append(calls, Call("exists", pdf_path, TRUE))
    /\ pc' = "makedirs"
    /\ UNCHANGED <<sys_argv, pdf_path, output_dir, doc, page_num, image_path,
                   image_paths, exc, result, stdout, exit_status, dirs, fs,
                   prev, runs>>

\* faulty variant: the result is printed twice
MainPrintTwice ==
    /\ pc = "print"
    /\ stdout' = PrintJson(PrintJson(stdout, result), result)
    /\ exit_status' = ExitStatusOfMain(result)
    /\ pc' = "exited"
    /\ UNCHANGED <<sys_argv, pdf_path, output_dir, doc, page_num, image_path,
                   image_paths, exc, result, calls, dirs, fs, prev, runs>>

\* print(json.dumps(result)); main() returns and the interpreter exits
MainPrint ==
    /\ pc = "print"
    /\ stdout' = PrintJson(stdout, result)
    /\ exit_status' = ExitStatusOfMain(result)
    /\ pc' = "exited"
    /\ UNCHANGED <<sys_argv, pdf_path, output_dir, doc, page_num, image_path,
                   image_paths, exc, result, calls, dirs, fs, prev, runs>>

----------------------------------------------------------------------------
(* pdf_to_images() *)

\* a library call raises: control transfers to the `except Exception` clause
Throw(op, arg, msg) ==
    /\ calls' = Append(calls, Call(op, arg, FALSE))
    /\ exc' = Raise(msg)
    /\ pc' = "except"

\* os.makedirs(output_dir, exist_ok=True); an empty path always raises
Makedirs ==
    /\ pc = "makedirs"
    /\ \/ /\ output_dir # <<>>
          /\ dirs' = dirs \cup DirsOf(output_dir)
          /\ calls' = Append(calls, Call("makedirs", output_dir, TRUE))
          /\ pc' = "open"
          /\ UNCHANGED exc
       \/ /\ Throw("makedirs", output_dir,
                   IF output_dir = <<>> THEN "No such file or directory"
                   ELSE "Permission denied")
          /\ UNCHANGED dirs
    /\ UNCHANGED <<sys_argv, pdf_path, output_dir, doc, page_num, image_path,
                   image_paths, result, stdout, exit_status, fs, prev, runs>>

\* doc = fitz.open(pdf_path); image_paths = []
Open ==
    /\ pc = "open"
    /\ \/ /\ pdf_path \in DOMAIN InputFiles
          /\ InputFiles[pdf_path] >= 0
          /\ doc' = [state |-> "open", page_count |-> InputFiles[pdf_path]]
          /\ image_paths' = <<>>
          /\ page_num' = 0
          /\ calls' = Append(calls, Call("open", pdf_path, TRUE))
          /\ pc' = "for"
          /\ UNCHANGED exc
       \/ /\ Throw("open", pdf_path, "cannot open document")
          /\ UNCHANGED <<doc, image_paths, page_num>>
    /\ UNCHANGED <<sys_argv, pdf_path, output_dir, image_path, result, stdout,
                   exit_status, dirs, fs, prev, runs>>

\* for page_num in range(len(doc)): next page, or leave the loop
ForNext ==
    /\ pc = "for"
    /\ pc' = IF page_num < doc.page_count THEN "load_page" ELSE "close"
    /\ UNCHANGED <<sys_argv, pdf_path, output_dir, doc, page_num, image_path,
                   image_paths, exc, result, stdout, exit_status, calls, dirs,
                   fs, prev, runs>>

\* page = doc.load_page(page_num)
LoadPage ==
    /\ pc = "load_page"
    /\ \/ /\ calls' = Append(calls, Call("load_page", Dec(page_num), TRUE))
          /\ pc' = "get_pixmap"
          /\ UNCHANGED exc
       \/ Throw("load_page", Dec(page_num), "cannot load page")
    /\ UNCHANGED <<sys_argv, pdf_path, output_dir, doc, page_num, image_path,
                   image_paths, result, stdout, exit_status, dirs, fs, prev,
                   runs>>

\* mat = fitz.Matrix(2, 2); pix = page.get_pixmap(matrix=mat)
GetPixmap ==
    /\ pc = "get_pixmap"
    /\ \/ /\ calls' = Append(calls, Call("get_pixmap", Dec(page_num), TRUE))
          /\ pc' = "save"
          /\ UNCHANGED exc
       \/ Throw("get_pixmap", Dec(page_num), "cannot render page")
    /\ UNCHANGED <<sys_argv, pdf_path, output_dir, doc, page_num, image_path,
                   image_paths, result, stdout, exit_status, dirs, fs, prev,
                   runs>>

\* image_path = os.path.join(output_dir, f"page-{page_num + 1}.png")
ImagePath(dir, n) == Join(dir, PageFileName(n))

\* faulty variant: an existing file is not overwritten
WriteFileKeepOld(f, p, c) ==
    [q \in DOMAIN f \cup {p} |-> IF q \in DOMAIN f THEN f[q] ELSE c]

\* the file system after a successful save to path p: created or overwritten
SaveFile(f, p, c) == WriteFile(f, p, c)

\* image_paths.append(image_path)
AppendPath(paths, p) == Append(paths, p)

\* faulty variant: the path is recorded even when the save raised
SaveThenAppendAnyway ==
    /\ pc = "save"
    /\ image_path' = ImagePath(output_dir, page_num)
    /\ \/ /\ fs' = SaveFile(fs, image_path', Png(pdf_path, page_num))
          /\ calls' = Append(calls, Call("save", image_path', TRUE))
          /\ pc' = "append"
          /\ UNCHANGED <<exc, image_paths>>
       \/ /\ Throw("save", image_path', "cannot save image")
          /\ image_paths' = AppendPath(image_paths, image_path')
          /\ fs' \in {fs, WriteFile(fs, image_path', PartialPng(pdf_path, page_num))}
    /\ UNCHANGED <<sys_argv, pdf_path, output_dir, doc, page_num, result,
                   stdout, exit_status, dirs, prev, runs>>

\* pix.save(image_path); a failed save may leave an incomplete file behind
Save ==
    /\ pc = "save"
    /\ image_path' = ImagePath(output_dir, page_num)
    /\ \/ /\ fs' = SaveFile(fs, image_path', Png(pdf_path, page_num))
          /\ calls' = Append(calls, Call("save", image_path', TRUE))
          /\ pc' = "append"
          /\ UNCHANGED exc
       \/ /\ Throw("save", image_path', "cannot save image")
          /\ fs' \in {fs, WriteFile(fs, image_path', PartialPng(pdf_path, page_num))}
    /\ UNCHANGED <<sys_argv, pdf_path, output_dir, doc, page_num, image_paths,
                   result, stdout, exit_status, dirs, prev, runs>>

\* image_paths.append(image_path), then back to the loop head
ListAppend ==
    /\ pc = "append"
    /\ image_paths' = AppendPath(image_paths, image_path)
    /\ page_num' = page_num + 1
    /\ pc' = "for"
    /\ UNCHANGED <<sys_argv, pdf_path, output_dir, doc, image_path, exc,
                   result, stdout, exit_status, calls, dirs, fs, prev, runs>>

\* doc.close(), reached only when the loop ran to its end
Close ==
    /\ pc = "close"
    /\ doc' = [doc EXCEPT !.state = "closed"]
    /\ calls' = Append(calls, Call("close", <<>>, TRUE))
    /\ pc' = "return"
    /\ UNCHANGED <<sys_argv, pdf_path, output_dir, page_num, image_path,
                   image_paths, exc, result, stdout, exit_status, dirs, fs,
                   prev, runs>>

\* return {"success": True, "pages": len(image_paths), "image_paths": image_paths}
ReturnSuccess ==
    /\ pc = "return"
    /\ result' = SuccessResult(image_paths)
    /\ pc' = "print"
    /\ UNCHANGED <<sys_argv, pdf_path, output_dir, doc, page_num, image_path,
                   image_paths, exc, stdout, exit_status, calls, dirs, fs,
                   prev, runs>>

\* faulty variant: the handler reports partial results and deletes the files
ExceptSalvage ==
    /\ pc = "except"
    /\ result' = [success |-> FALSE, error |-> Str(exc),
                  pages |-> Len(image_paths), image_paths |-> image_paths]
    /\ fs' = [q \in DOMAIN fs \ Written(calls) |-> fs[q]]
    /\ pc' = "print"
    /\ UNCHANGED <<sys_argv, pdf_path, output_dir, doc, page_num, image_path,
                   image_paths, exc, stdout, exit_status, calls, dirs, prev,
                   runs>>

\* except Exception as e: return {"success": False, "error": str(e)}
Except ==
    /\ pc = "except"
    /\ result' = FailureResult(exc)
    /\ pc' = "print"
    /\ UNCHANGED <<sys_argv, pdf_path, output_dir, doc, page_num, image_path,
                   image_paths, exc, stdout, exit_status, calls, dirs, fs,
                   prev, runs>>

----------------------------------------------------------------------------

Next ==
    \/ Invoke
    \/ MainUsage
    \/ MainArgs
    \/ MainNotFound
    \/ MainCall
    \/ Makedirs
    \/ Open
    \/ ForNext
    \/ LoadPage
    \/ GetPixmap
    \/ Save
    \/ ListAppend
    \/ Close
    \/ ReturnSuccess
    \/ Except
    \/ MainPrint

Spec == Init /\ [][Next]_vars

----------------------------------------------------------------------------
(* Vocabulary of the properties *)

Running == pc # "idle"
Exited == pc = "exited"
\* pdf_to_images has returned its dict to main()
Returned == pc \in {"print", "exited"} /\ DOMAIN result # {}
Succeeded == Returned /\ result.success
Failed == Returned /\ ~result.success

\* the path the documentation gives page k (1-based) under directory d
PagePath(d, k) == Join(d, <<"page-">> \o Dec(k) \o <<".png">>)
PagePaths(d, n) == [k \in 1..n |-> PagePath(d, k)]

HasCall(op, ok) == \E i \in DOMAIN calls : calls[i].op = op /\ calls[i].ok = ok
PageOps == {"load_page", "get_pixmap", "save"}
RaisedIn(ops) == \E i \in DOMAIN calls : calls[i].op \in ops /\ ~calls[i].ok
Raised == RaisedIn({"makedirs", "open"} \cup PageOps)

\* the run changed nothing on disk
DiskUntouched == fs = prev.fs /\ dirs = prev.dirs

----------------------------------------------------------------------------
\* C1: when open, every render and every save of an N-page document succeed,
\* pdf_to_images returns success = true, pages = N and N image paths, the
\* i-th being output_dir joined with page-{i}.png (1-based), all distinct.
C1_PagesAndPaths ==
    (Returned /\ HasCall("open", TRUE) /\ ~RaisedIn(PageOps)) =>
        LET N == InputFiles[pdf_path] IN
        /\ DOMAIN result = {"success", "pages", "image_paths"}
        /\ result.success = TRUE
        /\ result.pages = N
        /\ Len(result.image_paths) = N
        /\ \A i \in 1..N : result.image_paths[i] = PagePath(output_dir, i)
        /\ \A i, j \in 1..N : i # j => result.image_paths[i] # result.image_paths[j]

C1_Witness ==
    /\ Exited
    /\ Succeeded
    /\ result.pages = MaxPages
    /\ result.image_paths[MaxPages] = PagePath(output_dir, MaxPages)

\* C2: an exception from makedirs, open, a render or a save ends the library
\* calls at once, is not propagated, and yields exactly {success: false,
\* error: text of the exception}; a successful result has no error field.
C2_ExceptionBecomesFailure ==
    /\ Raised =>
        /\ ~calls[Len(calls)].ok
        /\ \A i \in 1..(Len(calls) - 1) : calls[i].ok
        /\ pc \in {"except", "print", "exited"}
        /\ exc # <<>>
        /\ Returned =>
            /\ DOMAIN result = {"success", "error"}
            /\ result.success = FALSE
            /\ result.error = <<exc.msg>>
        /\ Exited => stdout = <<result>> /\ exit_status = 0
    /\ Succeeded => "error" \notin DOMAIN result

C2_Witness ==
    /\ Exited
    /\ Failed
    /\ calls[Len(calls)] = Call("get_pixmap", Dec(1), FALSE)
    /\ result.error = <<"cannot render page">>

\* C3: with an argument count other than two the program prints the usage
\* payload, exits with status 1 and attempts nothing: no existence check, no
\* directory, no document, no file.
C3_UsageError ==
    (Running /\ Len(sys_argv) # 3) =>
        /\ pc \in {"main", "exited"}
        /\ calls = <<>>
        /\ doc = NoDoc
        /\ DiskUntouched
        /\ Exited =>
            /\ stdout = <<[success |-> FALSE,
                           error |-> <<"Usage: python pdf_to_images.py <pdf_path> <output_dir>">>]>>
            /\ exit_status = 1

C3_Witness ==
    /\ Exited
    /\ Len(sys_argv) = 4
    /\ exit_status = 1
    /\ Len(stdout) = 1

\* C4: with two arguments and a pdf_path that does not exist the program
\* prints 'PDF file not found: <pdf_path>', exits with status 1 and never
\* calls pdf_to_images: no directory is created and no file is written.
C4_NotFound ==
    (Running /\ Len(sys_argv) = 3 /\ sys_argv[2] \notin DOMAIN InputFiles) =>
        /\ pc \in {"main", "check_exists", "exited"}
        /\ \A i \in DOMAIN calls : calls[i].op = "exists"
        /\ doc = NoDoc
        /\ result = <<>>
        /\ DiskUntouched
        /\ Exited =>
            /\ stdout = <<[success |-> FALSE,
                           error |-> <<"PDF file not found: ">> \o sys_argv[2]]>>
            /\ exit_status = 1

C4_Witness ==
    /\ Exited
    /\ Len(sys_argv) = 3
    /\ sys_argv[2] = MissingPath
    /\ exit_status = 1
    /\ Len(stdout) = 1

\* C5: with two arguments and an existing pdf_path the exit status is 0
\* whatever the result's success flag; a file the library cannot open gives
\* status 0 with success = false; status 1 only on usage and not-found.
C5_ExitStatus ==
    Exited =>
        /\ (Len(sys_argv) = 3 /\ sys_argv[2] \in DOMAIN InputFiles) =>
            /\ exit_status = 0
            /\ Returned
            /\ InputFiles[sys_argv[2]] < 0 => result.success = FALSE
        /\ exit_status = 1 =>
            (Len(sys_argv) # 3 \/ sys_argv[2] \notin DOMAIN InputFiles)

C5_Witness ==
    /\ Exited
    /\ Len(sys_argv) = 3
    /\ sys_argv[2] = CorruptPath
    /\ Failed
    /\ exit_status = 0

\* C6: when page k fails to render or save after pages 1..k-1 were saved,
\* the files page-1.png .. page-{k-1}.png stay on disk as written and the
\* result is {success: false, error} with no pages and no image_paths.
C6_PartialOutputKept ==
    (RaisedIn(PageOps) /\ pc \in {"except", "print", "exited"}) =>
        /\ Written(calls) = {PagePath(output_dir, i) : i \in 1..page_num}
        /\ \A i \in 1..page_num :
            /\ PagePath(output_dir, i) \in DOMAIN fs
            /\ fs[PagePath(output_dir, i)] = Png(pdf_path, i - 1)
        /\ Returned =>
            /\ result.success = FALSE
            /\ DOMAIN result = {"success", "error"}

C6_Witness ==
    /\ Exited
    /\ Failed
    /\ RaisedIn(PageOps)
    /\ page_num = MaxPages - 1
    /\ page_num >= 1
    /\ PagePath(output_dir, page_num) \in DOMAIN fs

\* C7: whenever pdf_to_images returns after the document was opened, the
\* document handle has been closed.
C7_HandleReleased ==
    (Returned /\ doc.state # "none") => doc.state = "closed"

\* the two latest invocations both succeeded, with the same output_dir
SameDirTwice ==
    /\ Exited
    /\ Succeeded
    /\ DOMAIN prev.result # {}
    /\ prev.result.success
    /\ prev.argv[3] = sys_argv[3]

\* C8: two successful runs into the same output_dir overwrite the same names.
\* Same document: identical results, the same files written, no new name on
\* disk.  A shorter document after a longer one: the result lists only its own
\* pages and the longer one's extra files are still on disk, unchanged.
C8_RerunSameDir ==
    SameDirTwice =>
        LET N1 == InputFiles[prev.argv[2]]
            N2 == InputFiles[sys_argv[2]]
        IN
        /\ \A i \in 1..N2 : fs[PagePath(output_dir, i)] = Png(pdf_path, i - 1)
        /\ Written(calls) = {PagePath(output_dir, i) : i \in 1..N2}
        /\ prev.argv[2] = sys_argv[2] =>
            /\ result = prev.result
            /\ Written(calls) = prev.written
            /\ DOMAIN fs = DOMAIN prev.fs
        /\ N2 < N1 =>
            /\ result.image_paths = PagePaths(output_dir, N2)
            /\ \A k \in (N2 + 1)..N1 :
                /\ PagePath(output_dir, k) \in DOMAIN fs
                /\ fs[PagePath(output_dir, k)] = Png(prev.argv[2], k - 1)

C8_Witness ==
    /\ SameDirTwice
    /\ InputFiles[sys_argv[2]] = 1
    /\ InputFiles[prev.argv[2]] = MaxPages
    /\ MaxPages > 1
    /\ PagePath(output_dir, MaxPages) \in DOMAIN fs

\* C9: every invocation has printed exactly one JSON object when it ends,
\* and never more than one at any time.
C9_OneResult ==
    /\ Len(stdout) <= 1
    /\ Exited => Len(stdout) = 1
    /\ (Running /\ ~Exited) => stdout = <<>>

C9_Witness ==
    /\ Exited
    /\ Failed
    /\ stdout = <<result>>
    /\ prev.exit_status = 1
    /\ Len(prev.argv) # 3

RECURSIVE PageCalls(_, _)
\* the library calls of pages 1..n, in order
PageCalls(d, n) ==
    IF n = 0 THEN <<>>
    ELSE PageCalls(d, n - 1)
         \o << [op |-> "load_page", arg |-> Dec(n - 1)],
               [op |-> "get_pixmap", arg |-> Dec(n - 1)],
               [op |-> "save", arg |-> PagePath(d, n)] >>

\* the library calls of a whole conversion, in the documented order
FullOrder(p, d, n) ==
    << [op |-> "exists", arg |-> p], [op |-> "makedirs", arg |-> d],
       [op |-> "open", arg |-> p] >>
    \o PageCalls(d, n) \o << [op |-> "close", arg |-> <<>>] >>

\* C10: the directory is made before the document is opened, pages go one at
\* a time in document order, page k+1 is not touched before page k is saved
\* and appended, every entry of image_paths names a file this run has saved,
\* and the document is closed only after the last page was saved.
C10_SequentialOrder ==
    (Running /\ Len(sys_argv) = 3 /\ sys_argv[2] \in DOMAIN InputFiles) =>
        LET N == InputFiles[sys_argv[2]]
            order == FullOrder(sys_argv[2], sys_argv[3], IF N < 0 THEN 0 ELSE N)
        IN
        /\ Len(calls) <= Len(order)
        /\ \A i \in DOMAIN calls :
            calls[i].op = order[i].op /\ calls[i].arg = order[i].arg
        /\ \A i \in DOMAIN image_paths :
            /\ image_paths[i] = PagePath(output_dir, i)
            /\ image_paths[i] \in Written(calls)
            /\ fs[image_paths[i]] = Png(pdf_path, i - 1)
        /\ pc \in {"load_page", "get_pixmap", "save"} =>
            /\ Len(image_paths) = page_num
            /\ Cardinality(Written(calls)) = page_num
        /\ pc \in {"for", "close", "return"} => Len(image_paths) = page_num
        /\ doc.state = "closed" =>
            /\ Len(image_paths) = N
            /\ Cardinality(Written(calls)) = N

C10_Witness ==
    /\ pc = "load_page"
    /\ page_num = MaxPages - 1
    /\ page_num >= 1
    /\ Len(image_paths) = page_num

====
